---------------------------- MODULE Spec2Model ----------------------------
(***************************************************************************)
(* Model of src/background_scripts/completion/ranking.js: the relevancy    *)
(* scoring of completion candidates (matches, scoreTerm, wordRelevancy,    *)
(* recencyScore, normalizeDifference) and the shared RegexpCache.          *)
(*                                                                         *)
(* A JavaScript string is a sequence of one-character strings.  A Number   *)
(* is an exact fraction or NaN.  A RegExp object is a record of its source *)
(* text, its "i" flag and the identity it got when `new RegExp` made it.   *)
(***************************************************************************)
EXTENDS Integers, Sequences, FiniteSets, TLC

(***************************************************************************)
(* Bounds of the model.                                                    *)
(***************************************************************************)
\* RegExp objects `new RegExp` may have made before a further RegexpCache.get
\* of a caller that keeps the references starts.
MaxAlloc == 2
\* RegExp objects the cache may have made before a further call of the
\* ranking functions starts.
MaxWarm == 1
\* Longest list of query terms handed to matches / wordRelevancy.
MaxTerms == 2
\* Latest value of Date.now(), in days.
MaxNow == 3

(***************************************************************************)
(* Characters and strings.                                                 *)
(***************************************************************************)
LowerCaseLetters == <<"a", "b", "c", "n", "o", "r", "s", "t", "u">>
UpperCaseLetters == <<"A", "B", "C", "N", "O", "R", "S", "T", "U">>

Range(f) == {f[i] : i \in DOMAIN f}

\* String.prototype.toLowerCase on one character.
toLowerCaseChar(c) ==
    IF \E i \in DOMAIN UpperCaseLetters : UpperCaseLetters[i] = c
    THEN LowerCaseLetters[CHOOSE i \in DOMAIN UpperCaseLetters : UpperCaseLetters[i] = c]
    ELSE c

toLowerCase(s) == [i \in 1..Len(s) |-> toLowerCaseChar(s[i])]

\* Utils.hasUpperCase(s): s.toLowerCase() !== s.
hasUpperCase(s) == toLowerCase(s) # s

\* The characters Utils.escapeRegexSpecialCharacters puts a backslash before.
RegexSpecialCharacters ==
    {"-", "[", "]", "/", "{", "}", "(", ")", "*", "+", "?", ".", "\\", "^", "$", "|"}

RECURSIVE escapeRegexSpecialCharacters(_)
escapeRegexSpecialCharacters(s) ==
    IF s = <<>> THEN <<>>
    ELSE (IF Head(s) \in RegexSpecialCharacters THEN <<"\\", Head(s)>> ELSE <<Head(s)>>)
         \o escapeRegexSpecialCharacters(Tail(s))

\* The class \w of a RegExp without the "u" flag.
IsWordChar(c) == c \in Range(LowerCaseLetters) \cup Range(UpperCaseLetters) \cup {"_"}

(***************************************************************************)
(* Regular expressions.  The sources RegexpCache.get compiles are a run of *)
(* literal characters (escaped where special), word-boundary assertions \b *)
(* and group parentheses.                                                  *)
(***************************************************************************)
\* The pattern of a source text, as a sequence of atoms.
RECURSIVE Atoms(_)
Atoms(src) ==
    IF src = <<>> THEN <<>>
    ELSE IF Head(src) = "\\" /\ Len(src) >= 2
         THEN (IF src[2] = "b" THEN <<[assert |-> TRUE, char |-> "b"]>>
                               ELSE <<[assert |-> FALSE, char |-> src[2]]>>)
              \o Atoms(SubSeq(src, 3, Len(src)))
    ELSE IF Head(src) \in {"(", ")"} THEN Atoms(Tail(src))
    ELSE <<[assert |-> FALSE, char |-> Head(src)]>> \o Atoms(Tail(src))

\* \b at index i (0-based, between s[i] and s[i+1] of the 1-based sequence).
AtWordBoundary(s, i) ==
    LET before == i >= 1 /\ IsWordChar(s[i])
        after  == i < Len(s) /\ IsWordChar(s[i + 1])
    IN  before # after

CharMatches(c, d, ignoreCase) ==
    IF ignoreCase THEN toLowerCaseChar(c) = toLowerCaseChar(d) ELSE c = d

\* The end index of the match of atoms starting at index i of s, or -1.
RECURSIVE MatchAt(_, _, _, _)
MatchAt(atoms, s, i, ignoreCase) ==
    IF atoms = <<>> THEN i
    ELSE IF Head(atoms).assert
         THEN (IF AtWordBoundary(s, i) THEN MatchAt(Tail(atoms), s, i, ignoreCase) ELSE -1)
    ELSE IF i < Len(s) /\ CharMatches(s[i + 1], Head(atoms).char, ignoreCase)
         THEN MatchAt(Tail(atoms), s, i + 1, ignoreCase)
    ELSE -1

\* RegExp.prototype.test, and the truthiness of String.prototype.match, for
\* a RegExp without the "g" flag.
RegExpTest(re, s) ==
    \E atoms \in {Atoms(re.source)} :
        \E i \in 0..Len(s) : MatchAt(atoms, s, i, re.ignoreCase) # -1

\* String.prototype.split(RegExp): the pieces of s between the matches.
RECURSIVE SplitFrom(_, _, _, _)
SplitFrom(re, s, p, q) ==
    IF q >= Len(s) THEN <<SubSeq(s, p + 1, Len(s))>>
    ELSE LET e == MatchAt(Atoms(re.source), s, q, re.ignoreCase)
         IN  IF e = -1 \/ e = p THEN SplitFrom(re, s, p, q + 1)
             ELSE <<SubSeq(s, p + 1, q)>> \o SplitFrom(re, s, e, e)

RegExpSplit(re, s) ==
    IF s = <<>>
    THEN (IF MatchAt(Atoms(re.source), s, 0, re.ignoreCase) # -1 THEN <<>> ELSE <<s>>)
    ELSE SplitFrom(re, s, 0, 0)


(***************************************************************************)
(* Numbers.  [n, d] is the fraction n/d of non-negative integers; d = 0    *)
(* gives the two values a division by zero produces: 0/0 is NaN, and n/0   *)
(* with n > 0 is Infinity.  Rounding of the floating-point operations is   *)
(* not modelled.                                                           *)
(***************************************************************************)
RECURSIVE GCD(_, _)
GCD(a, b) == IF b = 0 THEN (IF a < 0 THEN -a ELSE a) ELSE GCD(b, a % b)

\* n/d in lowest terms, so that equal numbers are equal records.
Frac(n, d) ==
    IF d = 0 THEN [n |-> IF n = 0 THEN 0 ELSE 1, d |-> 0]
    ELSE [n |-> n \div GCD(n, d), d |-> d \div GCD(n, d)]

Num(k) == [n |-> k, d |-> 1]
NumMul(x, y) == Frac(x.n * y.n, x.d * y.d)
NumDiv(x, y) == Frac(x.n * y.d, x.d * y.n)
NumAdd(x, y) == Frac(x.n * y.d + y.n * x.d, x.d * y.d)
\* x < y; false when either side is NaN.
NumLess(x, y) == x.n * y.d < y.n * x.d
IsNaN(x) == x.n = 0 /\ x.d = 0
IsFinite(x) == x.d > 0
NumLeq(x, y) == ~IsNaN(x) /\ ~IsNaN(y) /\ ~NumLess(y, x)
NumEq(x, y) == ~IsNaN(x) /\ ~IsNaN(y) /\ x.n * y.d = y.n * x.d

Max(a, b) == IF a >= b THEN a ELSE b
Abs(a) == IF a >= 0 THEN a ELSE -a

\* `const x = e; body`: written TheValue({body : x \in {e}}), so that e is
\* evaluated once and body sees its value.
TheValue(S) == CHOOSE r \in S : TRUE

(***************************************************************************)
(* RegexpCache.  The state threaded through a call is the record           *)
(* [initialized, cache, heap]: the two fields of the object and the number *)
(* of RegExp objects made so far, which gives each new object its identity.*)
(***************************************************************************)
\* The own properties of `{}`.
EmptyObject == [k \in {} |-> 0]

\* "constructor", a property every object literal inherits from
\* Object.prototype (its value is the function Object).
constructorKey == <<"c", "o", "n", "s", "t", "r", "u", "c", "t", "o", "r">>
ObjectPrototypeKeys == {constructorKey}

Undefined == [kind |-> "undefined", source |-> <<>>, ignoreCase |-> FALSE, id |-> 0]
Inherited(key) == [kind |-> "function", source |-> key, ignoreCase |-> FALSE, id |-> 0]

\* this.cache[regexpString]: an own property, else an inherited one, else undefined.
CacheLookup(cache, regexpString) ==
    IF regexpString \in DOMAIN cache THEN cache[regexpString]
    ELSE IF regexpString \in ObjectPrototypeKeys THEN Inherited(regexpString)
    ELSE Undefined

clear(w) == [w EXCEPT !.cache = EmptyObject]

init(w) == clear([w EXCEPT !.initialized = TRUE])

\* new RegExp(regexpString, Utils.hasUpperCase(string) ? "" : "i")
NewRegExp(regexpString, string, heap) ==
    [kind |-> "RegExp", source |-> regexpString,
     ignoreCase |-> ~hasUpperCase(string), id |-> heap + 1]

\* RegexpCache.get with the cache keyed by the escaped term alone.
getKeyedByTermAlone(w, string, prefix, suffix) ==
    TheValue({
        LET regexpString == prefix \o escapeRegexSpecialCharacters(string) \o suffix
            cacheKey == escapeRegexSpecialCharacters(string)
            found == CacheLookup(w1.cache, cacheKey)
            made == NewRegExp(regexpString, string, w1.heap)
        IN  IF found.kind # "undefined"
            THEN [w |-> w1, value |-> found]
            ELSE [w |-> [w1 EXCEPT
                           !.cache = [k \in DOMAIN w1.cache \cup {cacheKey} |->
                                        IF k = cacheKey THEN made ELSE w1.cache[k]],
                           !.heap = w1.heap + 1],
                  value |-> made]
        : w1 \in {IF ~w.initialized THEN init(w) ELSE w} })

\* RegexpCache.get; an absent (null) prefix or suffix is the empty string.
\* The result is the state after the call and the value returned.
get(w, string, prefix, suffix) ==
    TheValue({
        LET regexpString == prefix \o escapeRegexSpecialCharacters(string) \o suffix
            found == CacheLookup(w1.cache, regexpString)
            made == NewRegExp(regexpString, string, w1.heap)
        IN  IF found.kind # "undefined"
            THEN [w |-> w1, value |-> found]
            ELSE [w |-> [w1 EXCEPT
                           !.cache = [k \in DOMAIN w1.cache \cup {regexpString} |->
                                        IF k = regexpString THEN made ELSE w1.cache[k]],
                           !.heap = w1.heap + 1],
                  value |-> made]
        : w1 \in {IF ~w.initialized THEN init(w) ELSE w} })

\* thing.match(regexp), as a truth value.  A value that is no RegExp is
\* converted with new RegExp(String(value)); String(Object) is the text
\* "function Object() { [native code] }", whose pattern needs the letter f,
\* which no string of the model has.
StringMatch(thing, regexp) ==
    IF regexp.kind = "RegExp" THEN RegExpTest(regexp, thing) ELSE FALSE

\* string.split(separator).  A separator that is no RegExp is converted to
\* the string String(separator), which no string of the model contains.
StringSplit(string, separator) ==
    IF separator.kind = "RegExp" THEN RegExpSplit(separator, string) ELSE <<string>>

(***************************************************************************)
(* matches                                                                 *)
(***************************************************************************)
RECURSIVE matches(_, _, _)
matches(w, queryTerms, things) ==
    IF queryTerms = <<>> THEN [w |-> w, value |-> TRUE]
    ELSE TheValue({
             LET matchedTerm == \E j \in DOMAIN things : StringMatch(things[j], regexp.value)
             IN  IF ~matchedTerm THEN [w |-> regexp.w, value |-> FALSE]
                 ELSE matches(regexp.w, Tail(queryTerms), things)
             : regexp \in {get(w, Head(queryTerms), <<>>, <<>>)} })

(***************************************************************************)
(* Scoring                                                                 *)
(***************************************************************************)
matchWeights ==
    [matchAnywhere |-> 1, matchStartOfWord |-> 1, matchWholeWord |-> 1,
     maximumScore |-> 3, recencyCalibrator |-> [n |-> 2, d |-> 3]]

wordBoundary == <<"\\", "b">>

RECURSIVE SumLen(_)
SumLen(pieces) == IF pieces = <<>> THEN 0 ELSE Len(Head(pieces)) + SumLen(Tail(pieces))

\* The result is the state after the call and the pair [score, count].
scoreTermAtWordStart(g2, term, string, capped) ==
    IF RegExpTest(g2.value, string)
    THEN TheValue({
             IF RegExpTest(g3.value, string)
             THEN [w |-> g3.w,
                   value |-> <<matchWeights.matchAnywhere + matchWeights.matchStartOfWord
                                 + matchWeights.matchWholeWord, capped>>]
             ELSE [w |-> g3.w,
                   value |-> <<matchWeights.matchAnywhere + matchWeights.matchStartOfWord,
                               capped>>]
             : g3 \in {get(g2.w, term, wordBoundary, wordBoundary)} })
    ELSE [w |-> g2.w, value |-> <<matchWeights.matchAnywhere, capped>>]

scoreTerm(w, term, string) ==
    TheValue({
        TheValue({
            LET count == Len(string) - SumLen(nonMatching)
                capped == IF count < Len(string) THEN count ELSE Len(string)
            IN  IF Len(nonMatching) > 1
                THEN TheValue({ scoreTermAtWordStart(g2, term, string, capped)
                                : g2 \in {get(g1.w, term, wordBoundary, <<>>)} })
                ELSE [w |-> g1.w, value |-> <<0, 0>>]
            : nonMatching \in {StringSplit(string, g1.value)} })
        : g1 \in {get(w, term, <<>>, <<>>)} })

normalizeDifference(a, b) ==
    LET max == Max(a, b)
    IN  NumDiv(Num(max - Abs(a - b)), Num(max))

\* `if (title)` read as "a title was passed", the empty string included.
TruthyWhenPassed(title) == title.present

\* `if (title)`: a title is scored when it was passed and is not "".
Truthy(title) == title.present /\ title.text # <<>>

\* The loop of wordRelevancy over the terms: the state and the four sums.
ScoreTitle(w, term, title) ==
    IF Truthy(title) THEN scoreTerm(w, term, title.text) ELSE [w |-> w, value |-> <<0, 0>>]

RECURSIVE ScoreTerms(_, _, _, _)
ScoreTerms(w, queryTerms, url, title) ==
    IF queryTerms = <<>>
    THEN [w |-> w, urlScore |-> 0, urlCount |-> 0, titleScore |-> 0, titleCount |-> 0]
    ELSE TheValue({
             [w |-> r.w,
              urlScore |-> u.value[1] + r.urlScore, urlCount |-> u.value[2] + r.urlCount,
              titleScore |-> t.value[1] + r.titleScore,
              titleCount |-> t.value[2] + r.titleCount]
             : <<u, t, r>> \in
                 UNION { UNION { { <<u1, t1, r1>>
                                   : r1 \in {ScoreTerms(t1.w, Tail(queryTerms), url, title)} }
                                 : t1 \in {ScoreTitle(u1.w, Head(queryTerms), title)} }
                         : u1 \in {scoreTerm(w, Head(queryTerms), url)} } })

\* wordRelevancy up to the normalized, length-adjusted url and title scores.
normalizedScores(w, queryTerms, url, title) ==
    TheValue({
        LET maximumPossibleScore == matchWeights.maximumScore * Len(queryTerms)
            urlScore == NumMul(NumDiv(Num(sums.urlScore), Num(maximumPossibleScore)),
                               normalizeDifference(sums.urlCount, Len(url)))
            titleScore ==
                IF Truthy(title)
                THEN NumMul(NumDiv(Num(sums.titleScore), Num(maximumPossibleScore)),
                            normalizeDifference(sums.titleCount, Len(title.text)))
                ELSE urlScore
        IN  [w |-> sums.w, urlScore |-> urlScore, titleScore |-> titleScore]
        : sums \in {ScoreTerms(w, queryTerms, url, title)} })

\* The alternative the source leaves in a comment: return Math.max(urlScore, titleScore).
wordRelevancyMax(w, queryTerms, url, title) ==
    TheValue({
        [w |-> s.w,
         value |-> IF NumLess(s.urlScore, s.titleScore) THEN s.titleScore ELSE s.urlScore]
        : s \in {normalizedScores(w, queryTerms, url, title)} })

wordRelevancy(w, queryTerms, url, title) ==
    TheValue({
        LET raised == IF NumLess(s.urlScore, s.titleScore) THEN s.titleScore ELSE s.urlScore
        IN  [w |-> s.w, value |-> NumDiv(NumAdd(raised, s.titleScore), Num(2))]
        : s \in {normalizedScores(w, queryTerms, url, title)} })

(***************************************************************************)
(* recencyScore.  Time is counted in days: oneMonthAgo, 1000*60*60*24*30   *)
(* milliseconds in the source, is 30 of them.  `now` is Date.now().        *)
(***************************************************************************)
oneMonthAgo == 30

\* recencyScore without the Math.max(0, ...) of its second line.
recencyScoreUnclamped(now, lastAccessedTime) ==
    LET recency == now - lastAccessedTime
        recencyDifference == NumDiv(Num(oneMonthAgo - recency), Num(oneMonthAgo))
        cubed == NumMul(NumMul(recencyDifference, recencyDifference), recencyDifference)
    IN  NumMul(cubed, matchWeights.recencyCalibrator)

recencyScore(now, lastAccessedTime) ==
    LET recency == now - lastAccessedTime
        recencyDifference == NumDiv(Num(Max(0, oneMonthAgo - recency)), Num(oneMonthAgo))
        cubed == NumMul(NumMul(recencyDifference, recencyDifference), recencyDifference)
    IN  NumMul(cubed, matchWeights.recencyCalibrator)


(***************************************************************************)
(* The inputs the calls are made with.                                     *)
(***************************************************************************)
\* Sequences over S of length at most n.
RECURSIVE SeqsUpTo(_, _)
SeqsUpTo(S, n) ==
    IF n = 0 THEN {<<>>}
    ELSE LET shorter == SeqsUpTo(S, n - 1)
         IN  shorter \cup {Append(q, x) : q \in shorter, x \in S}

\* Query terms (non-empty): plain, with a capital, with a special character,
\* and the name of an inherited property.
QueryTerms == {<<"b">>, <<"A", "b">>, constructorKey}

\* URLs and titles.
Texts == {<<>>, <<"a", "b">>, <<"b", "a">>, <<"a", " ", "b">>, <<"A", "b">>, constructorKey}

NoTitle == [present |-> FALSE, text |-> <<>>]
Titles == {NoTitle} \cup {[present |-> TRUE, text |-> t] : t \in Texts}

\* The [string, prefix, suffix] a caller of RegexpCache.get passes; prefix
\* and suffix are raw pattern text and make a valid pattern around the term.
GetArguments ==
    {<<q, <<>>, <<>>>> : q \in QueryTerms}
    \cup {<<<<".">>, <<>>, <<>>>>,
          <<<<"b">>, <<"A">>, <<>>>>,
          <<<<"b">>, wordBoundary, <<>>>>,
          <<<<"b">>, wordBoundary, wordBoundary>>,
          <<<<"b">>, <<"(">>, <<")">>>>}

\* Fields of the comparisons: the empty one, one without the term "b", one
\* of each match class (inside a word, at the start of a word, a whole
\* word), and longer ones of the first and the last class.
Fields == {<<>>, <<"a">>, <<"a", "b">>, <<"b", "a">>, <<" ", "b">>,
           <<"a", "a", "b">>, <<"a", " ", "b">>}

FieldTitles == {NoTitle} \cup {[present |-> TRUE, text |-> t] : t \in Fields}

\* The term lists of the comparisons.
ComparedTerms == {<<>>, <<<<"b">>>>, <<<<"A", "b">>>>}

\* The RegexpCache.get calls other callers made before a comparison.
ComparedGets == {<<<<"b">>, <<>>, <<>>>>, <<<<"b">>, <<"A">>, <<>>>>}

\* Values of lastAccessedTime, in days.
LastAccessedTimes == (0 - oneMonthAgo - 2)..(MaxNow + 2)

(***************************************************************************)
(* State.                                                                  *)
(***************************************************************************)
VARIABLES
    RegexpCache,  \* the object: its fields initialized and cache
    heap,         \* how many RegExp objects were made so far
    now,          \* Date.now(), in days
    call,         \* the last call made: its name, arguments and result
    returned,     \* [key, value] of the RegexpCache.get calls since the last clear()/init()
    stale         \* the values RegexpCache.get returned before the last clear()/init()

vars == <<RegexpCache, heap, now, call, returned, stale>>

World == [initialized |-> RegexpCache.initialized, cache |-> RegexpCache.cache, heap |-> heap]

SetWorld(w) ==
    /\ RegexpCache' = [initialized |-> w.initialized, cache |-> w.cache]
    /\ heap' = w.heap

Values(log) == {r.value : r \in log}

\* No call is in progress: the caller is between two calls.
Idle == [op |-> "idle"]

Init ==
    /\ RegexpCache = [initialized |-> FALSE, cache |-> EmptyObject]
    /\ heap = 0
    /\ now = 0
    /\ call = Idle
    /\ returned = {}
    /\ stale = {}

(***************************************************************************)
(* The calls.  A call runs to completion (the code is synchronous); the    *)
(* caller then takes its result and is free to make the next call.         *)
(***************************************************************************)
DoInit ==
    /\ call = Idle
    /\ SetWorld(init(World))
    /\ call' = [op |-> "init", before |-> World]
    /\ UNCHANGED now

DoClear ==
    /\ call = Idle
    /\ SetWorld(clear(World))
    /\ call' = [op |-> "clear", before |-> World]
    /\ UNCHANGED now

DoGet(string, prefix, suffix) ==
    /\ call = Idle
    /\ \E g \in {get(World, string, prefix, suffix)} :
           /\ SetWorld(g.w)
           /\ call' = [op |-> "get", string |-> string, prefix |-> prefix,
                       suffix |-> suffix, before |-> World, result |-> g.value]
    /\ UNCHANGED now

CallInit == DoInit /\ UNCHANGED <<returned, stale>>

CallClear == DoClear /\ UNCHANGED <<returned, stale>>

CallGet ==
    \E a \in GetArguments :
        /\ heap <= MaxWarm
        /\ DoGet(a[1], a[2], a[3])
        /\ UNCHANGED <<returned, stale>>

CallMatches ==
    \E queryTerms \in SeqsUpTo(QueryTerms, MaxTerms), things \in SeqsUpTo(Texts, 2) :
        /\ call = Idle
        /\ heap <= MaxWarm
        /\ \E m \in {matches(World, queryTerms, things)} :
               /\ SetWorld(m.w)
               /\ call' = [op |-> "matches", queryTerms |-> queryTerms, things |-> things,
                           result |-> m.value]
        /\ UNCHANGED <<now, returned, stale>>

CallScoreTerm ==
    \E term \in QueryTerms, string \in Texts :
        /\ call = Idle
        /\ heap <= MaxWarm
        /\ \E r \in {scoreTerm(World, term, string)} :
               /\ SetWorld(r.w)
               /\ call' = [op |-> "scoreTerm", term |-> term, string |-> string,
                           result |-> r.value]
        /\ UNCHANGED <<now, returned, stale>>

CallWordRelevancy ==
    \E queryTerms \in SeqsUpTo(QueryTerms, MaxTerms), url \in Texts, title \in Titles :
        /\ call = Idle
        /\ heap <= MaxWarm
        /\ \E r \in {wordRelevancy(World, queryTerms, url, title)} :
               /\ SetWorld(r.w)
               /\ call' = [op |-> "wordRelevancy", queryTerms |-> queryTerms, url |-> url,
                           title |-> title, result |-> r.value]
        /\ UNCHANGED <<now, returned, stale>>

\* The caller takes the result; the next call can start.
Return ==
    /\ call # Idle
    /\ call' = Idle
    /\ UNCHANGED <<RegexpCache, heap, now, returned, stale>>

Next ==
    \/ CallInit
    \/ CallClear
    \/ CallGet
    \/ CallMatches
    \/ CallScoreTerm
    \/ CallWordRelevancy
    \/ Return

Spec == Init /\ [][Next]_vars

(***************************************************************************)
(* A caller of RegexpCache that keeps the references it is handed, as the  *)
(* unit tests of RegexpCache do.                                           *)
(***************************************************************************)
MemoKey(string, prefix, suffix) == prefix \o escapeRegexSpecialCharacters(string) \o suffix

KeepInit ==
    /\ DoInit
    /\ returned' = {}
    /\ stale' = stale \cup Values(returned)

KeepClear ==
    /\ DoClear
    /\ returned' = {}
    /\ stale' = stale \cup Values(returned)

KeepGet ==
    \E a \in GetArguments :
        /\ heap <= MaxAlloc
        /\ DoGet(a[1], a[2], a[3])
        /\ returned' = returned \cup {[key |-> MemoKey(a[1], a[2], a[3]), value |-> call'.result]}
        /\ UNCHANGED stale

NextCache ==
    \/ KeepInit
    \/ KeepClear
    \/ KeepGet
    \/ Return

SpecCache == Init /\ [][NextCache]_vars

(***************************************************************************)
(* recencyScore reads the clock and nothing else.                          *)
(***************************************************************************)
Tick ==
    /\ now < MaxNow
    /\ now' = now + 1
    /\ UNCHANGED <<RegexpCache, heap, call, returned, stale>>

CallRecencyScore ==
    \E lastAccessedTime \in LastAccessedTimes :
        /\ call' = [op |-> "recencyScore", lastAccessedTime |-> lastAccessedTime,
                    now |-> now, result |-> recencyScore(now, lastAccessedTime)]
        /\ UNCHANGED <<RegexpCache, heap, now, returned, stale>>

NextRecency ==
    \/ Tick
    \/ CallRecencyScore

SpecRecency == Init /\ [][NextRecency]_vars

(***************************************************************************)
(* Comparisons, as the unit tests make them: wordRelevancy is called twice *)
(* with the same terms, and the two calls differ in the url or in the      *)
(* title, never in both.                                                   *)
(***************************************************************************)
CallGetBeforeComparison ==
    \E a \in ComparedGets :
        /\ heap <= MaxWarm
        /\ DoGet(a[1], a[2], a[3])
        /\ UNCHANGED <<returned, stale>>

CallWordRelevancyTwice ==
    \E queryTerms \in ComparedTerms, url1 \in Fields, url2 \in Fields,
       title1 \in FieldTitles, title2 \in FieldTitles :
        /\ call = Idle
        /\ heap <= MaxWarm
        /\ url1 = url2 \/ title1 = title2
        /\ \E r1 \in {wordRelevancy(World, queryTerms, url1, title1)} :
               \E r2 \in {wordRelevancy(r1.w, queryTerms, url2, title2)} :
                   /\ SetWorld(r2.w)
                   /\ call' = [op |-> "wordRelevancyTwice", queryTerms |-> queryTerms,
                               url |-> <<url1, url2>>, title |-> <<title1, title2>>,
                               before |-> World, result |-> <<r1.value, r2.value>>]
        /\ UNCHANGED <<now, returned, stale>>

NextCompare ==
    \/ CallInit
    \/ CallClear
    \/ CallGetBeforeComparison
    \/ CallWordRelevancyTwice
    \/ Return

SpecCompare == Init /\ [][NextCompare]_vars

(***************************************************************************)
(* What the claims speak of, said without the cache and without patterns.  *)
(***************************************************************************)
\* Smartcase: a term with a capital is compared exactly, another one
\* without regard to case.
SmartcaseEqual(term, piece) ==
    IF \E i \in DOMAIN term : term[i] \in Range(UpperCaseLetters)
    THEN piece = term
    ELSE Len(piece) = Len(term)
         /\ \A i \in DOMAIN term : toLowerCaseChar(piece[i]) = toLowerCaseChar(term[i])

\* The indices (0-based) at which term occurs in text.
Occurrences(term, text) ==
    {i \in 0..(Len(text) - Len(term)) : SmartcaseEqual(term, SubSeq(text, i + 1, i + Len(term)))}

Occurs(term, text) == Occurrences(term, text) # {}

StartsWord(term, text) == \E i \in Occurrences(term, text) : AtWordBoundary(text, i)

IsWholeWord(term, text) ==
    \E i \in Occurrences(term, text) :
        AtWordBoundary(text, i) /\ AtWordBoundary(text, i + Len(term))

Zero == Num(0)
One == Num(1)

(***************************************************************************)
(* C1-C10                                                                   *)
(***************************************************************************)
\* C1: matches(T, ...F) is true if and only if every term of T occurs, under
\* smartcase, in at least one field of F; for T empty it is true.
C1_MatchesEveryTermInSomeField ==
    call.op = "matches" =>
        (call.result <=>
            \A i \in DOMAIN call.queryTerms :
                \E j \in DOMAIN call.things : Occurs(call.queryTerms[i], call.things[j]))

\* C2: whatever get/clear/init calls came before, and whatever the prefix and
\* suffix, the pattern get(term, prefix, suffix) returns ignores case
\* exactly when the raw term has no uppercase letter.
C2_SmartcaseFromRawTerm ==
    (call.op = "get" /\ call.result.kind = "RegExp") =>
        (call.result.ignoreCase <=> ~hasUpperCase(call.string))

\* C3: among the get calls made since the last clear()/init(), two return
\* the identical instance if and only if their memoization keys
\* prefix + escaped(term) + suffix are equal.
C3_SameInstanceIffSameKey ==
    \A r1 \in returned, r2 \in returned : (r1.value = r2.value) <=> (r1.key = r2.key)

\* A get(x) that returns the instance of an earlier get(x) although a get
\* with another key was made in between, with get(x, "(", ")") made as well.
C3_Witness ==
    /\ call.op = "get"
    /\ MemoKey(call.string, call.prefix, call.suffix) \in DOMAIN call.before.cache
    /\ \E r \in returned : r.key # MemoKey(call.string, call.prefix, call.suffix)
                           /\ r.value.id > call.result.id
    /\ \E r1 \in returned, r2 \in returned :
           r1.key = <<"b">> /\ r2.key = <<"(", "b", ")">> /\ r1.value # r2.value

\* C4: wordRelevancy returns a number in [0, 1] for every list of terms,
\* url and optional title, empty strings included.
C4_WordRelevancyInUnitInterval ==
    call.op = "wordRelevancy" =>
        IsFinite(call.result) /\ NumLeq(Zero, call.result) /\ NumLeq(call.result, One)

\* C5: when no query term occurs in the url or in the title, wordRelevancy
\* returns exactly 0 (stated for a list of at least one term).
C5_NoMatchScoresZero ==
    (/\ call.op = "wordRelevancy"
     /\ call.queryTerms # <<>>
     /\ \A i \in DOMAIN call.queryTerms :
            /\ ~Occurs(call.queryTerms[i], call.url)
            /\ ~(call.title.present /\ Occurs(call.queryTerms[i], call.title.text)))
    => call.result = Zero

\* C6: recencyScore returns a value in [0, recencyCalibrator] for every
\* lastAccessedTime.
C6_RecencyScoreInRange ==
    call.op = "recencyScore" =>
        NumLeq(Zero, call.result) /\ NumLeq(call.result, matchWeights.recencyCalibrator)

\* C7: recencyScore does not increase as the age now - lastAccessedTime
\* grows, is recencyCalibrator at age 0, and is 0 from the age of 30 days on.
C7_RecencyMonotoneWithEndpoints ==
    call.op = "recencyScore" =>
        LET age == call.now - call.lastAccessedTime
        IN  /\ age = 0 => call.result = matchWeights.recencyCalibrator
            /\ age >= oneMonthAgo => call.result = Zero
            /\ \A t \in LastAccessedTimes :
                   call.now - t >= age => NumLeq(recencyScore(call.now, t), call.result)

\* An entry inside the window, scored strictly between the two ends.
C7_Witness ==
    /\ call.op = "recencyScore"
    /\ call.now - call.lastAccessedTime > 0
    /\ call.now - call.lastAccessedTime < oneMonthAgo
    /\ NumLess(Zero, call.result)
    /\ NumLess(call.result, matchWeights.recencyCalibrator)

\* C8: clear() and init() leave the cache without entries, so a get after a
\* clear returns an instance that no get before the clear returned; init()
\* applied again changes nothing; a get on an initialized cache discards
\* no entry.
C8_CacheLifecycle ==
    /\ call.op \in {"clear", "init"} => RegexpCache.cache = EmptyObject
    /\ \A r \in returned : r.value \notin stale
    /\ call.op = "init" => init(World) = World
    /\ (call.op = "get" /\ call.before.initialized) =>
           \A k \in DOMAIN call.before.cache :
               k \in DOMAIN RegexpCache.cache /\ RegexpCache.cache[k] = call.before.cache[k]

\* C9: a get on an initialized cache leaves the cache as it was when its key
\* has an entry, adds exactly the entry of its key when it has none, and
\* never replaces or removes an entry.
C9_GetOnlyAddsItsOwnEntry ==
    (call.op = "get" /\ call.before.initialized) =>
        LET key == MemoKey(call.string, call.prefix, call.suffix)
            old == call.before.cache
            new == RegexpCache.cache
        IN  /\ \A k \in DOMAIN old : k \in DOMAIN new /\ new[k] = old[k]
            /\ key \in DOMAIN old => new = old
            /\ key \notin DOMAIN old => DOMAIN new = DOMAIN old \cup {key}

\* C10: scoreTerm's score is 0 when the term does not occur in the field,
\* and else matchAnywhere, plus matchStartOfWord if an occurrence begins at a
\* word boundary, plus matchWholeWord if an occurrence has word boundaries
\* on both sides; it lies in [0, maximumScore], the sum of the three weights.
C10_ScoreIsSumOfWeights ==
    /\ matchWeights.maximumScore =
           matchWeights.matchAnywhere + matchWeights.matchStartOfWord
               + matchWeights.matchWholeWord
    /\ call.op = "scoreTerm" =>
           /\ call.result[1] \in 0..matchWeights.maximumScore
           /\ call.result[1] =
                  IF ~Occurs(call.term, call.string) THEN 0
                  ELSE matchWeights.matchAnywhere
                       + (IF StartsWord(call.term, call.string)
                          THEN matchWeights.matchStartOfWord ELSE 0)
                       + (IF IsWholeWord(call.term, call.string)
                          THEN matchWeights.matchWholeWord ELSE 0)

(***************************************************************************)
(* C11-C17                                                                  *)
(***************************************************************************)
\* The match class of a field for a term: 3 when the term occurs as a whole
\* word, 2 when it occurs at the start of a word only, 1 when it occurs
\* inside a word only, 0 when it does not occur.
MatchClass(term, text) ==
    IF IsWholeWord(term, text) THEN 3
    ELSE IF StartsWord(term, text) THEN 2
    ELSE IF Occurs(term, text) THEN 1
    ELSE 0

\* The number of characters of text that the occurrences of term cover,
\* taken from the left and without overlap, from index i (0-based) on.
RECURSIVE MatchedFrom(_, _, _)
MatchedFrom(term, text, i) ==
    IF i > Len(text) - Len(term) THEN 0
    ELSE IF i \in Occurrences(term, text)
         THEN Len(term) + MatchedFrom(term, text, i + Len(term))
         ELSE MatchedFrom(term, text, i + 1)

MatchedCharacters(term, text) == MatchedFrom(term, text, 0)

\* A title that does not match the term: none, or one the term is not in.
TitleNotMatching(term, title) == ~title.present \/ ~Occurs(term, title.text)

\* No title was supplied: none was passed, or the empty string was.
NoTitleSupplied(title) == ~title.present \/ title.text = <<>>

\* Math.max of two numbers: NaN when either is NaN.
MathMax(x, y) == IF IsNaN(x) \/ IsNaN(y) THEN Frac(0, 0) ELSE IF NumLess(x, y) THEN y ELSE x

\* The cache as it is before anything used it.
ColdWorld == [initialized |-> FALSE, cache |-> EmptyObject, heap |-> 0]

\* Two calls of wordRelevancy with one term, which differ in the url only,
\* the title not matching the term.
UrlVaried ==
    /\ call.op = "wordRelevancyTwice"
    /\ Len(call.queryTerms) = 1
    /\ call.title[1] = call.title[2]
    /\ TitleNotMatching(call.queryTerms[1], call.title[1])

\* Two calls of wordRelevancy with one term, which differ in the title
\* only, the url not matching the term.
TitleVaried ==
    /\ call.op = "wordRelevancyTwice"
    /\ Len(call.queryTerms) = 1
    /\ call.url[1] = call.url[2]
    /\ ~Occurs(call.queryTerms[1], call.url[1])
    /\ call.title[1].present /\ call.title[2].present

\* first is a field of the next higher match class than second, of the
\* same length and with as many matched characters.
HigherClass(term, first, second) ==
    /\ Len(first) = Len(second)
    /\ MatchedCharacters(term, first) = MatchedCharacters(term, second)
    /\ MatchClass(term, second) >= 1
    /\ MatchClass(term, first) = MatchClass(term, second) + 1

\* first is a shorter field than second, of the same match class and with
\* as many matched characters.
Shorter(term, first, second) ==
    /\ Len(first) < Len(second)
    /\ MatchedCharacters(term, first) = MatchedCharacters(term, second)
    /\ MatchClass(term, first) >= 1
    /\ MatchClass(term, first) = MatchClass(term, second)

\* C11: with the term, the field length and the number of matched characters
\* the same, and the other field not matching, a whole-word field scores
\* strictly higher in wordRelevancy than a start-of-word field, and that one
\* strictly higher than an inside-a-word field, for the url and for the title.
C11_HigherMatchClassScoresHigher ==
    /\ (UrlVaried /\ HigherClass(call.queryTerms[1], call.url[1], call.url[2]))
           => NumLess(call.result[2], call.result[1])
    /\ (TitleVaried
        /\ HigherClass(call.queryTerms[1], call.title[1].text, call.title[2].text))
           => NumLess(call.result[2], call.result[1])

\* C12: with the term, the match class and the number of matched characters
\* the same, and the other field not matching, a shorter url scores strictly
\* higher in wordRelevancy than a longer url, and a shorter title strictly
\* higher than a longer title.
C12_ShorterFieldScoresHigher ==
    /\ (UrlVaried /\ Shorter(call.queryTerms[1], call.url[1], call.url[2]))
           => NumLess(call.result[2], call.result[1])
    /\ (TitleVaried
        /\ Shorter(call.queryTerms[1], call.title[1].text, call.title[2].text))
           => NumLess(call.result[2], call.result[1])

\* C13: matches and wordRelevancy return, for the same arguments, the result
\* they return on a cold cache, whatever get/clear/init calls were made on
\* the shared cache before.
C13_ResultIndependentOfCache ==
    /\ call.op = "matches" =>
           call.result = matches(ColdWorld, call.queryTerms, call.things).value
    /\ call.op = "wordRelevancy" =>
           call.result =
               wordRelevancy(ColdWorld, call.queryTerms, call.url, call.title).value

\* C14: normalizeDifference(0, 0) is 1, so that wordRelevancy with an empty
\* url returns a defined number, not NaN.
C14_EmptyFieldIsDefined ==
    (call.op = "wordRelevancy" /\ call.queryTerms # <<>> /\ call.url = <<>>) =>
        normalizeDifference(0, 0) = One /\ IsFinite(call.result)

C16_NoTitleIsUrlScoreAlone ==
    call.op = "wordRelevancyTwice" =>
        /\ NoTitleSupplied(call.title[1]) =>
               call.result[1] =
                   normalizedScores(call.before, call.queryTerms, call.url[1],
                                    call.title[1]).urlScore
        /\ (/\ call.url[1] = call.url[2]
            /\ NoTitleSupplied(call.title[1])
            /\ NoTitleSupplied(call.title[2]))
           => call.result[2] = call.result[1]

\* A matching url scored first without a title and then with the empty
\* string as title.
C16_Witness ==
    /\ call.op = "wordRelevancyTwice"
    /\ call.url[1] = call.url[2]
    /\ ~call.title[1].present
    /\ call.title[2].present /\ call.title[2].text = <<>>
    /\ NumLess(Zero, call.result[1])
    /\ call.result[2] = call.result[1]

\* C17: scoreTerm's matchedCount is the field length minus the total length
\* of the pieces between the occurrences of the term, capped at the field
\* length; it is 0 when the term does not occur, and lies in 0..len(field).
C17_MatchedCountIsCoveredLength ==
    call.op = "scoreTerm" =>
        /\ call.result[2] \in 0..Len(call.string)
        /\ ~Occurs(call.term, call.string) => call.result[2] = 0
        /\ call.result[2] =
               IF MatchedCharacters(call.term, call.string) < Len(call.string)
               THEN MatchedCharacters(call.term, call.string)
               ELSE Len(call.string)

=============================================================================
